---- MODULE Spec2Model ----
(***************************************************************************)
(* Dependency-graph engine of vite-plugin-galaxy: generateGraph            *)
(* (src/core/graph.ts), detectGhostPkgs (src/core/ghost.ts), collectGraph  *)
(* (src/core/collect.ts), hotUpdate and the JSON API (src/server/index.ts) *)
(* and writeJSON (src/prod-report.ts).                                     *)
(*                                                                         *)
(* A JavaScript string is a sequence of one-character strings, so that     *)
(* startsWith, replace, includes, RegExp.test and path.relative are        *)
(* computed character by character.                                        *)
(***************************************************************************)
EXTENDS Integers, Sequences, FiniteSets, TLC

VARIABLES
  modules,      \* ctx.getModuleIds(): the ids of the host registry, in order
  moduleInfo,   \* ctx.getModuleInfo(id) of every id of the registry
  options,      \* the merged options of the plugin
  manifest,     \* package.json of the project root
  graphCache,   \* the published snapshot (collect.ts)
  builds,       \* builds adopted since the registry last changed (0, 1, 2+)
  buildResult,  \* how the promise of the latest collectGraph call settled
  unlinked,     \* module ids whose file can no longer be read
  fullReload,   \* options.hmr.fullReload
  microtasks,   \* collectGraph calls suspended at their await
  sent,         \* the messages given to server.ws.send, in order
  hmrLog,       \* one entry for every file-change event handled
  published,    \* the change event whose rebuild graphCache holds (0: none)
  served,       \* the graph of the latest response of the JSON API
  depsJson,     \* the content of deps.json
  aliasCall,    \* the arguments of a call of applyAlias
  aliasResult,  \* what that call returned
  depthCall,    \* the arguments of a call of calculateDepths
  depthResult,  \* what that call returned, and the writes to depthMap it made
  callStack,    \* the activations of dfs of that call, the innermost last
  closure,      \* depthMap and visited of that call
  returned,     \* the value the activation that ended last returned
  nodeIndex,    \* the position of the loop over the nodes
  classifyCall, \* the arguments of a call of classifyNodeTypes
  classifyResult, \* what that call returned
  nodeMap,      \* PerformanceOptimizer: the registered nodes, in insertion order
  visibleNodes, \* PerformanceOptimizer: the ids held visible
  calls         \* PerformanceOptimizer: the methods called, and how each ended

\* the state of the graph builder
graphVars == <<modules, moduleInfo, options, manifest, graphCache, builds, buildResult, unlinked>>

\* the state of the update coordinator and of the report writer
hmrVars == <<fullReload, microtasks, sent, hmrLog, published, served, depsJson>>

\* a call of applyAlias on its own
aliasVars == <<aliasCall, aliasResult>>

\* a call of calculateDepths on its own
dfsVars == <<callStack, closure, returned, nodeIndex>>

depthVars == <<depthCall, depthResult, dfsVars>>

\* a call of classifyNodeTypes on its own
classifyVars == <<classifyCall, classifyResult>>

\* the performance optimizer of the client
optimizerVars == <<nodeMap, visibleNodes, calls>>

\* the functions and components exercised on their own
unitVars == <<aliasVars, depthVars, classifyVars, optimizerVars>>

vars == <<graphVars, hmrVars, unitVars>>

----------------------------------------------------------------------------
(* Bounds of the model *)

\* the host registry holds at most MaxModules module ids
MaxModules == 3

\* an alias object holds at most MaxAliasEntries entries
MaxAliasEntries == 2

\* at most MaxUnlinked files of the registry stop being readable
MaxUnlinked == 1

\* the dev server handles at most MaxEvents file-change events
MaxEvents == 2

\* calculateDepths is called with at most MaxNodes nodes
MaxNodes == 3

\* each of them with at most MaxImports imports
MaxImports == 2

\* classifyNodeTypes is called with at most MaxClassified nodes
MaxClassified == 2

\* and with at most MaxRules custom rules
MaxRules == 2

\* at most MaxCalls methods of a PerformanceOptimizer are called
MaxCalls == 4

----------------------------------------------------------------------------
(* JavaScript strings *)

Range(s) == {s[i] : i \in 1..Len(s)}

\* String.prototype.startsWith
StartsWith(s, p) == Len(p) <= Len(s) /\ \A j \in 1..Len(p) : s[j] = p[j]

\* sub occurs in s at position i
OccursAt(s, sub, i) ==
  i + Len(sub) - 1 <= Len(s) /\ \A j \in 1..Len(sub) : s[i + j - 1] = sub[j]

\* String.prototype.includes
Includes(s, sub) == \E i \in 1..(Len(s) - Len(sub) + 1) : OccursAt(s, sub, i)

\* String.prototype.indexOf, for a sub that s includes
RECURSIVE IndexFrom(_, _, _)
IndexFrom(s, sub, i) == IF OccursAt(s, sub, i) THEN i ELSE IndexFrom(s, sub, i + 1)

\* GetSubstitution: the text a replacement string stands for, when key was
\* matched in s: $$ stands for a dollar and $& for the match (a string
\* pattern has no groups; the patterns for the text before and after the
\* match are written with quote characters, which no id or alias of the
\* model holds)
RECURSIVE GetSubstitution(_, _)
GetSubstitution(value, key) ==
  IF Len(value) = 0 THEN <<>>
  ELSE IF Len(value) >= 2 /\ value[1] = "$" /\ value[2] \in {"$", "&"}
       THEN (IF value[2] = "$" THEN <<"$">> ELSE key)
            \o GetSubstitution(SubSeq(value, 3, Len(value)), key)
       ELSE <<value[1]>> \o GetSubstitution(Tail(value), key)

\* String.prototype.replace with a string pattern: the first occurrence only
Replace(s, key, value) ==
  IF ~Includes(s, key) THEN s
  ELSE LET i == IndexFrom(s, key, 1)
       IN  SubSeq(s, 1, i - 1) \o GetSubstitution(value, key)
             \o SubSeq(s, i + Len(key), Len(s))

\* String.prototype.split on a one-character separator: cur is the segment
\* being read, acc the segments read
RECURSIVE SplitFrom(_, _, _, _, _)
SplitFrom(s, sep, i, cur, acc) ==
  IF i > Len(s) THEN Append(acc, cur)
  ELSE IF s[i] = sep THEN SplitFrom(s, sep, i + 1, <<>>, Append(acc, cur))
  ELSE SplitFrom(s, sep, i + 1, Append(cur, s[i]), acc)

Split(s, sep) == SplitFrom(s, sep, 1, <<>>, <<>>)

\* Array.prototype.join
RECURSIVE Join(_, _)
Join(segs, sep) ==
  IF Len(segs) = 0 THEN <<>>
  ELSE IF Len(segs) = 1 THEN segs[1]
  ELSE segs[1] \o <<sep>> \o Join(Tail(segs), sep)

\* number of occurrences of x in the list s
Count(s, x) == Cardinality({i \in 1..Len(s) : s[i] = x})

----------------------------------------------------------------------------
(* node:path (posix) *)

\* normalizeString: drops empty and "." segments, ".." removes the segment
\* before it (an absolute path never climbs above the root)
RECURSIVE NormalizeSegs(_, _)
NormalizeSegs(segs, acc) ==
  IF Len(segs) = 0 THEN acc
  ELSE LET h == Head(segs)
       IN  IF h = <<>> \/ h = <<".">> THEN NormalizeSegs(Tail(segs), acc)
           ELSE IF h = <<".", ".">>
                THEN NormalizeSegs(Tail(segs),
                       IF Len(acc) = 0 THEN acc ELSE SubSeq(acc, 1, Len(acc) - 1))
                ELSE NormalizeSegs(Tail(segs), Append(acc, h))

\* ctx.config.root, and the working directory of the dev server
RootDir == <<"/", "p">>

\* path.resolve(p): the segments of the absolute path; a path that is not
\* absolute is resolved against the working directory
resolve(p) ==
  IF Len(p) > 0 /\ p[1] = "/"
  THEN NormalizeSegs(Split(p, "/"), <<>>)
  ELSE NormalizeSegs(Split(RootDir, "/") \o Split(p, "/"), <<>>)

\* length of the longest common prefix of two segment lists
RECURSIVE CommonPrefix(_, _)
CommonPrefix(a, b) ==
  IF Len(a) = 0 \/ Len(b) = 0 \/ Head(a) # Head(b) THEN 0
  ELSE 1 + CommonPrefix(Tail(a), Tail(b))

\* path.relative(from, to)
relative(from, to) ==
  LET f == resolve(from)
      t == resolve(to)
      k == CommonPrefix(f, t)
      ups == [i \in 1..(Len(f) - k) |-> <<".", ".">>]
  IN  Join(ups \o SubSeq(t, k + 1, Len(t)), "/")

----------------------------------------------------------------------------
(* JavaScript numbers, as far as the depth computation meets them *)

Num(n) == [t |-> "number", v |-> n]
NaN == [t |-> "NaN", v |-> 0]
Undefined == [t |-> "undefined", v |-> 0]
Infinity == [t |-> "Infinity", v |-> 0]

\* x + 1: undefined + 1 is NaN
JSAdd1(x) ==
  IF x.t = "number" THEN Num(x.v + 1)
  ELSE IF x.t = "Infinity" THEN Infinity
  ELSE NaN

\* a > b with NaN on either side
JSGtNaNGreater(a, b) ==
  IF a.t \in {"NaN", "undefined"} \/ b.t \in {"NaN", "undefined"} THEN TRUE
  ELSE IF a.t = "Infinity" THEN b.t # "Infinity"
  ELSE IF b.t = "Infinity" THEN FALSE
  ELSE a.v > b.v

\* a > b: every comparison with NaN (or undefined, which converts to NaN) is
\* false
JSGt(a, b) ==
  IF a.t \in {"NaN", "undefined"} \/ b.t \in {"NaN", "undefined"} THEN FALSE
  ELSE IF a.t = "Infinity" THEN b.t # "Infinity"
  ELSE IF b.t = "Infinity" THEN FALSE
  ELSE a.v > b.v

\* x || 0
JSOrZero(x) ==
  IF x.t \in {"NaN", "undefined"} \/ (x.t = "number" /\ x.v = 0) THEN Num(0)
  ELSE x

----------------------------------------------------------------------------
(* Regular expressions of the configuration: a literal, anchored at the     *)
(* start of the input (/^test\//) or not (/node_modules\/react/), without   *)
(* the g or y flag, so that RegExp.test keeps no state between calls        *)

RegexTest(re, s) ==
  IF re.anchored THEN StartsWith(s, re.text) ELSE Includes(s, re.text)

----------------------------------------------------------------------------
(* src/core/graph.ts *)

\* every entry whose key is a prefix is applied, each to the result of the
\* one before
RECURSIVE applyAliasChained(_, _)
applyAliasChained(nodeId, alias) ==
  IF Len(alias) = 0 THEN nodeId
  ELSE IF StartsWith(nodeId, alias[1][1])
       THEN applyAliasChained(Replace(nodeId, alias[1][1], alias[1][2]), Tail(alias))
       ELSE applyAliasChained(nodeId, Tail(alias))

\* applyAlias: alias is the list of <<key, value>> that Object.entries gives
RECURSIVE applyAlias(_, _)
applyAlias(nodeId, alias) ==
  IF Len(alias) = 0 THEN nodeId
  ELSE IF StartsWith(nodeId, alias[1][1])
       THEN Replace(nodeId, alias[1][1], alias[1][2])
       ELSE applyAlias(nodeId, Tail(alias))

shouldExclude(nodeId, exclude) ==
  \E i \in 1..Len(exclude) : RegexTest(exclude[i], nodeId)

\* the imports of nodeId, each turned round: the traversal then follows the
\* imports of a node instead of its dependents
dependentsOfImports(edges, nodeId) ==
  LET imports == SelectSeq(edges, LAMBDA edge : edge.source = nodeId)
  IN  [i \in 1..Len(imports) |->
         [source |-> imports[i].target, target |-> imports[i].source]]

\* edges.filter(edge => edge.target === nodeId)
dependentsOf(edges, nodeId) ==
  SelectSeq(edges, LAMBDA edge : edge.target = nodeId)

\* no limit applied
clampDepthNoLimit(maxDepthVal, maxDepth) == maxDepthVal

\* if (maxDepthVal > maxDepth) maxDepthVal = maxDepth
clampDepth(maxDepthVal, maxDepth) ==
  IF JSGt(maxDepthVal, maxDepth) THEN maxDepth ELSE maxDepthVal

\* depthMap[nodeId]
depthOf(depthMap, nodeId) ==
  IF nodeId \in DOMAIN depthMap THEN depthMap[nodeId] ELSE Undefined

\* depthMap[nodeId] = value
setDepth(depthMap, nodeId, value) ==
  [x \in DOMAIN depthMap \cup {nodeId} |->
     IF x = nodeId THEN value ELSE depthMap[x]]

\* the closure state after depthMap[nodeId] = value; writes records the
\* assignments to depthMap in the order they are made
assignDepth(st, nodeId, value) ==
  [st EXCEPT !.depthMap = setDepth(@, nodeId, value), !.writes = Append(@, nodeId)]

\* a node without dependents is computed again every time it is reached
visitedUnlessRoot(nodeId, edges, st) ==
  nodeId \in st.visited /\ Len(dependentsOf(edges, nodeId)) # 0

\* visited.has(nodeId)
visitedHas(nodeId, edges, st) == nodeId \in st.visited

\* the depth of the dependent met last is kept
keepLast(depth, maxDepthVal) == depth

\* if (depth > maxDepthVal) maxDepthVal = depth
keepDeeper(depth, maxDepthVal) ==
  IF JSGt(depth, maxDepthVal) THEN depth ELSE maxDepthVal

\* dfs of calculateDepths; st is the closure state [depthMap, visited], the
\* result is [st, ret]. dfsLoop is the for loop over the dependents.
RECURSIVE dfs(_, _, _, _)
RECURSIVE dfsLoop(_, _, _, _, _)
dfs(nodeId, edges, maxDepth, st) ==
  IF visitedHas(nodeId, edges, st)
  THEN [st |-> st, ret |-> depthOf(st.depthMap, nodeId)]
  ELSE LET st1 == [st EXCEPT !.visited = @ \cup {nodeId}]
           dependents == dependentsOf(edges, nodeId)
       IN  IF Len(dependents) = 0
           THEN [st |-> assignDepth(st1, nodeId, Num(0)), ret |-> Num(0)]
           ELSE LET r == dfsLoop(dependents, edges, maxDepth, st1, Num(0))
                    maxDepthVal == clampDepth(r.ret, maxDepth)
                IN  [st |-> assignDepth(r.st, nodeId, maxDepthVal),
                     ret |-> maxDepthVal]

dfsLoop(dependents, edges, maxDepth, st, maxDepthVal) ==
  IF Len(dependents) = 0 THEN [st |-> st, ret |-> maxDepthVal]
  ELSE LET r == dfs(dependents[1].source, edges, maxDepth, st)
           depth == JSAdd1(r.ret)
       IN  dfsLoop(Tail(dependents), edges, maxDepth, r.st,
                   keepDeeper(depth, maxDepthVal))

\* for (const node of nodes) if (!visited.has(node.id)) dfs(node.id)
RECURSIVE depthPass(_, _, _, _)
depthPass(nodes, edges, maxDepth, st) ==
  IF Len(nodes) = 0 THEN st
  ELSE depthPass(Tail(nodes), edges, maxDepth,
                 IF nodes[1].id \in st.visited THEN st
                 ELSE dfs(nodes[1].id, edges, maxDepth, st).st)

\* const depthMap = {}, visited = new Set()
newClosure == [depthMap |-> <<>>, writes |-> <<>>, visited |-> {}]

\* the closure state when the loop over the nodes is done
depthRun(nodes, edges, opts) ==
  depthPass(nodes, edges, opts.maxDepth, newClosure)

calculateDepths(nodes, edges, opts) ==
  LET st == depthRun(nodes, edges, opts)
  IN  [i \in 1..Len(nodes) |->
         [nodes[i] EXCEPT !.depth = JSOrZero(depthOf(st.depthMap, nodes[i].id))]]

\* the last rule that matches gives the type
RECURSIVE customTypeLast(_, _)
customTypeLast(id, rules) ==
  IF Len(rules) = 0 THEN <<>>
  ELSE IF RegexTest(rules[Len(rules)].pattern, id) THEN <<rules[Len(rules)].type>>
  ELSE customTypeLast(id, SubSeq(rules, 1, Len(rules) - 1))

\* the tests for lib come before those for util and ui
defaultTypeLibFirst(id) ==
  IF Includes(id, <<"l", "i", "b">>) \/ Includes(id, <<"l", "i", "b", "r", "a", "r", "y">>) THEN "lib"
  ELSE IF Includes(id, <<"u", "t", "i", "l">>) \/ Includes(id, <<"u", "t", "i", "l", "s">>) THEN "util"
  ELSE IF Includes(id, <<"u", "i">>) \/ Includes(id, <<"c", "o", "m", "p", "o", "n", "e", "n", "t">>) THEN "ui"
  ELSE "other"

\* classifyNodeTypes: the type of one node id
RECURSIVE customType(_, _)
customType(id, rules) ==
  IF Len(rules) = 0 THEN <<>>
  ELSE IF RegexTest(rules[1].pattern, id) THEN <<rules[1].type>>
  ELSE customType(id, Tail(rules))

defaultType(id) ==
  IF Includes(id, <<"u", "t", "i", "l">>) \/ Includes(id, <<"u", "t", "i", "l", "s">>) THEN "util"
  ELSE IF Includes(id, <<"u", "i">>) \/ Includes(id, <<"c", "o", "m", "p", "o", "n", "e", "n", "t">>) THEN "ui"
  ELSE IF Includes(id, <<"l", "i", "b">>) \/ Includes(id, <<"l", "i", "b", "r", "a", "r", "y">>) THEN "lib"
  ELSE IF Includes(id, <<"a", "p", "i">>) \/ Includes(id, <<"s", "e", "r", "v", "e", "r">>) THEN "other"
  ELSE IF Includes(id, <<"r", "o", "u", "t", "e", "r">>) \/ Includes(id, <<"r", "o", "u", "t", "e">>) THEN "other"
  ELSE "other"

classifyNodeTypes(nodes, opts) ==
  [i \in 1..Len(nodes) |->
     LET custom == customType(nodes[i].id, opts.customTypeRules)
     IN  [nodes[i] EXCEPT !.type =
            IF Len(custom) > 0 THEN custom[1] ELSE defaultType(nodes[i].id)]]

----------------------------------------------------------------------------
(* src/core/ghost.ts *)

\* length of the longest prefix of s made of characters outside stop
RECURSIVE RunLength(_, _)
RunLength(s, stop) ==
  IF Len(s) = 0 \/ s[1] \in stop THEN 0
  ELSE 1 + RunLength(Tail(s), stop)

\* id.match(/^([^@\/]+|@[^\/]+\/[^\/]+)(\/|$)/): <<m[1]>>, or <<>> for null
ghostMatch(id) ==
  LET n == RunLength(id, {"@", "/"})
  IN  IF n >= 1 /\ (n = Len(id) \/ id[n + 1] = "/")
      THEN <<SubSeq(id, 1, n)>>
      ELSE IF Len(id) = 0 \/ id[1] # "@" THEN <<>>
      ELSE LET a == RunLength(Tail(id), {"/"})
               rest == SubSeq(id, a + 3, Len(id))
               b == RunLength(rest, {"/"})
           IN  IF a >= 1 /\ Len(id) >= a + 2 /\ b >= 1
               THEN <<SubSeq(id, 1, a + 2 + b)>>
               ELSE <<>>

\* the filter predicate: m && !declared.has(m[1])
isGhost(id, declared) ==
  ghostMatch(id) # <<>> /\ ghostMatch(id)[1] \notin declared

\* detectGhostPkgs, once the manifest has been read and parsed
detectGhostPkgs(pkg, importedIds) ==
  LET declared == pkg.dependencies \cup pkg.devDependencies
  IN  SelectSeq(importedIds, LAMBDA id : isGhost(id, declared))

----------------------------------------------------------------------------
(* The project the model builds from *)

\* module ids of project sources, as the host registry gives them
SrcA == <<"/", "p", "/", "s", "r", "c", "/", "a", ".", "t", "s">>
AliasA == <<"/", "p", "/", "@", "/", "a", ".", "t", "s">>
SrcB == <<"/", "p", "/", "s", "r", "c", "/", "u", "i", "/", "b", ".", "t", "s">>
LibC == <<"/", "p", "/", "l", "i", "b", "/", "c", ".", "t", "s">>
TestH == <<"/", "p", "/", "t", "e", "s", "t", "/", "h", ".", "t", "s">>
\* an import target the registry never holds
Missing == <<"/", "p", "/", "s", "r", "c", "/", "m", ".", "t", "s">>

SourceIds == {SrcA, AliasA, SrcB, LibC, TestH}

\* module ids that name packages
BareLodash == <<"l", "o", "d", "a", "s", "h">>
AbsLodash == <<"/", "p", "/", "n", "o", "d", "e", "_", "m", "o", "d", "u", "l", "e", "s", "/", "l", "o", "d", "a", "s", "h", "/", "i", ".", "j", "s">>
RelLodash == <<"n", "o", "d", "e", "_", "m", "o", "d", "u", "l", "e", "s", "/", "l", "o", "d", "a", "s", "h", "/", "i", ".", "j", "s">>
BareLeftPad == <<"l", "e", "f", "t", "-", "p", "a", "d">>
BareLeftPadFile == <<"l", "e", "f", "t", "-", "p", "a", "d", "/", "x", ".", "j", "s">>
AbsLeftPad == <<"/", "p", "/", "n", "o", "d", "e", "_", "m", "o", "d", "u", "l", "e", "s", "/", "l", "e", "f", "t", "-", "p", "a", "d", "/", "i", ".", "j", "s">>
ScopedPkg == <<"@", "s", "/", "k", "/", "i", ".", "j", "s">>

PackageIds ==
  {BareLodash, AbsLodash, RelLodash, BareLeftPad, BareLeftPadFile, AbsLeftPad,
   ScopedPkg}

\* statSync(id): <<[size, mtime]>>, or <<>> when it throws (no such file,
\* or a file that cannot be read any more)
statSync(id) ==
  IF id \in unlinked THEN <<>>
  ELSE IF id = SrcA THEN <<[size |-> 10, mtime |-> 1]>>
  ELSE IF id = AliasA THEN <<[size |-> 20, mtime |-> 2]>>
  ELSE IF id = SrcB THEN <<[size |-> 30, mtime |-> 3]>>
  ELSE IF id = TestH THEN <<[size |-> 40, mtime |-> 4]>>
  ELSE IF id = AbsLodash \/ id = AbsLeftPad THEN <<[size |-> 50, mtime |-> 5]>>
  ELSE <<>>

\* getModuleInfo(id) is null, or holds importedIds
NullInfo == [importedIds |-> <<>>, isNull |-> TRUE]

Info(importedIds) == [importedIds |-> importedIds, isNull |-> FALSE]

\* what the host may hold for a source module when it enters the registry
ModuleInfos(id) ==
  IF id = SrcA THEN {Info(<<SrcB>>), Info(<<SrcA>>), Info(<<>>)}
  ELSE IF id = AliasA THEN {Info(<<SrcB>>), Info(<<LibC, TestH>>)}
  ELSE IF id = SrcB THEN {Info(<<LibC, TestH>>), Info(<<SrcA>>), Info(<<>>)}
  ELSE IF id = LibC THEN {Info(<<AliasA, Missing>>), Info(<<SrcA>>), NullInfo}
  ELSE {Info(<<SrcB>>), Info(<<>>)}

\* options of the plugin
DefaultOptions ==
  [alias |-> <<>>, exclude |-> <<>>, maxDepth |-> Infinity, customTypeRules |-> <<>>]

ConfiguredOptions(maxDepth) ==
  [alias |-> << <<<<"@">>, <<"s", "r", "c">>>> >>,
   exclude |-> <<[anchored |-> TRUE, text |-> <<"t", "e", "s", "t", "/">>]>>,
   maxDepth |-> maxDepth,
   customTypeRules |-> <<[pattern |-> [anchored |-> FALSE, text |-> <<"a", ".", "t", "s">>], type |-> "entry"]>>]

OptionChoices == {DefaultOptions, ConfiguredOptions(Num(1))}

\* options whose alias and exclusion patterns meet the ids of packages
PackageOptions ==
  [alias |-> << <<<<"@", "s">>, <<"t", "e", "s", "t">>>> >>,
   exclude |-> <<[anchored |-> TRUE, text |-> <<"t", "e", "s", "t", "/">>],
                 [anchored |-> FALSE, text |-> <<"p", "a", "d", "/">>]>>,
   maxDepth |-> Infinity,
   customTypeRules |-> <<>>]

\* package.json: readable with its two dependency tables, or not readable
Manifest(deps, devDeps) ==
  [dependencies |-> deps, devDependencies |-> devDeps, readable |-> TRUE]

UnreadableManifest == [dependencies |-> {}, devDependencies |-> {}, readable |-> FALSE]

ManifestChoices ==
  {Manifest({<<"l", "o", "d", "a", "s", "h">>}, {}), Manifest({}, {<<"l", "o", "d", "a", "s", "h">>, <<"@", "s", "/", "k">>}), UnreadableManifest}

----------------------------------------------------------------------------
(* generateGraph *)

\* the edge with its two ends exchanged
edgeReversed(shortId, targetId) == [source |-> targetId, target |-> shortId]

\* edges.push({ source: shortId, target: targetId })
edgeOf(shortId, targetId) == [source |-> shortId, target |-> targetId]

\* every import gets its edge
importSkippedNever(targetId, exclude) == FALSE

\* if (shouldExclude(targetId, exclude)) continue
importSkipped(targetId, exclude) == shouldExclude(targetId, exclude)

\* the edges of one kept module: the loop over info.importedIds
RECURSIVE importEdges(_, _, _)
importEdges(shortId, importedIds, opts) ==
  IF Len(importedIds) = 0 THEN <<>>
  ELSE LET targetId == applyAlias(relative(RootDir, importedIds[1]), opts.alias)
       IN  (IF importSkipped(targetId, opts.exclude) THEN <<>>
            ELSE <<edgeOf(shortId, targetId)>>)
           \o importEdges(shortId, Tail(importedIds), opts)

\* the node pushed for a kept module
newNode(id, shortId) ==
  LET st == statSync(id)
  IN  IF Len(st) > 0
      THEN [depth |-> Num(0), id |-> shortId, type |-> "other",
            size |-> st[1].size, mtime |-> st[1].mtime]
      ELSE [depth |-> Num(0), id |-> shortId, type |-> "other", size |-> 0, mtime |-> 0]

\* a module whose file cannot be read is skipped like an excluded one
moduleExcludedOrUnreadable(id, shortId, exclude) ==
  shouldExclude(shortId, exclude) \/ Len(statSync(id)) = 0

\* the exclusion patterns tested on the id the registry gives
moduleExcludedByRawId(id, shortId, exclude) == shouldExclude(id, exclude)

\* if (shouldExclude(shortId, exclude)) continue
moduleExcluded(id, shortId, exclude) == shouldExclude(shortId, exclude)

\* no module counts as seen
alreadySeenNever(shortId, seen) == FALSE

\* if (seen.has(shortId)) continue
alreadySeen(shortId, seen) == shortId \in seen

\* an edge list that outlives the call: the edges of the build before
staleBuild == [edges |-> graphCache.edges, nodes |-> <<>>, seen |-> {}]

\* const nodes = [], edges = [], seen = new Set()
newBuild == [edges |-> <<>>, nodes |-> <<>>, seen |-> {}]

\* the edges of a module are put before those of the modules before it
unshiftEdges(edges, pushed) == pushed \o edges

\* edges.push(...) for every import of a module, after the edges there are
pushEdges(edges, pushed) == edges \o pushed

\* the loop over the module ids; acc is [nodes, edges, seen]
RECURSIVE buildLoop(_, _, _, _)
buildLoop(mods, info, opts, acc) ==
  IF Len(mods) = 0 THEN acc
  ELSE LET id == mods[1]
           shortId == applyAlias(relative(RootDir, id), opts.alias)
       IN  IF info[id].isNull \/ moduleExcluded(id, shortId, opts.exclude)
              \/ alreadySeen(shortId, acc.seen)
           THEN buildLoop(Tail(mods), info, opts, acc)
           ELSE buildLoop(Tail(mods), info, opts,
                  [edges |-> pushEdges(acc.edges, importEdges(shortId, info[id].importedIds, opts)),
                   nodes |-> Append(acc.nodes, newNode(id, shortId)),
                   seen |-> acc.seen \cup {shortId}])

\* the exclusion patterns tested on the ids as detectGhostPkgs returns them
filterGhostsUnaliased(ghosts, opts) ==
  LET kept == SelectSeq(ghosts, LAMBDA ghost : ~shouldExclude(ghost, opts.exclude))
  IN  [i \in 1..Len(kept) |-> applyAlias(kept[i], opts.alias)]

\* ghosts.map(applyAlias).filter(not excluded)
filterGhosts(ghosts, opts) ==
  SelectSeq([i \in 1..Len(ghosts) |-> applyAlias(ghosts[i], opts.alias)],
            LAMBDA ghost : ~shouldExclude(ghost, opts.exclude))

\* generateGraph: the promise rejects when the manifest cannot be read or
\* parsed (readFileSync or JSON.parse throws in detectGhostPkgs)
generateGraph(mods, info, pkg, opts) ==
  LET built == buildLoop(mods, info, opts, newBuild)
      nodesWithDepth == calculateDepths(built.nodes, built.edges, opts)
      nodesWithType == classifyNodeTypes(nodesWithDepth, opts)
  IN  IF ~pkg.readable THEN [value |-> <<>>, rejected |-> TRUE]
      ELSE [value |-> [edges |-> built.edges,
                       nodes |-> nodesWithType,
                       ghosts |-> filterGhosts(detectGhostPkgs(pkg, mods), opts)],
            rejected |-> FALSE]

----------------------------------------------------------------------------
(* src/core/collect.ts and the host *)

EmptyGraph == [edges |-> <<>>, nodes |-> <<>>, ghosts |-> <<>>]

\* the snapshot is the empty one again
resetOnRejection(old) == EmptyGraph

\* the await in collectGraph throws when the promise is rejected: the
\* assignment to graphCache does not run
leftOnRejection(old) == old

TypeOK ==
  /\ Len(modules) <= MaxModules
  /\ DOMAIN moduleInfo = Range(modules)
  /\ builds \in 0..2
  /\ buildResult \in {"none", "adopted", "rejected"}
  /\ unlinked \subseteq Range(modules)
  /\ fullReload \in BOOLEAN
  /\ Len(microtasks) <= 1
  /\ Len(sent) = Len(hmrLog)
  /\ published \in 0..Len(hmrLog)
  /\ Len(served) <= 1
  /\ Len(depsJson) <= 1

\* the host resolves one more module: it enters the registry, after the
\* modules already there
Resolve(id, info) ==
  /\ Len(modules) < MaxModules
  /\ id \notin Range(modules)
  /\ modules' = Append(modules, id)
  /\ moduleInfo' = [x \in Range(modules) \cup {id} |-> IF x = id THEN info ELSE moduleInfo[x]]
  /\ builds' = 0
  /\ UNCHANGED <<options, manifest, graphCache, buildResult, unlinked>>
  /\ UNCHANGED <<hmrVars, unitVars>>

ResolveSource == \E id \in SourceIds : \E info \in ModuleInfos(id) : Resolve(id, info)

\* a package module has no imports of its own in the registry
ResolvePackage ==
  \E id \in PackageIds : Resolve(id, Info(<<>>))

\* collectGraph: graphCache = await generateGraph(ctx, options). Nothing of
\* generateGraph waits for the host (its only await is on the promise of
\* detectGhostPkgs, which is settled when it is returned), so the
\* assignment follows the call before the host delivers another event; a
\* rejection leaves graphCache. builds counts the builds adopted since the
\* registry last changed (2 stands for two or more).
collectGraph ==
  LET g == generateGraph(modules, moduleInfo, manifest, options)
  IN  /\ graphCache' = IF g.rejected THEN leftOnRejection(graphCache) ELSE g.value
      /\ builds' = IF g.rejected THEN builds ELSE IF builds = 0 THEN 1 ELSE 2
      /\ buildResult' = IF g.rejected THEN "rejected" ELSE "adopted"
      /\ UNCHANGED <<modules, moduleInfo, options, manifest, unlinked>>
      /\ UNCHANGED <<hmrVars, unitVars>>

InitRegistry ==
  /\ modules = <<>>
  /\ moduleInfo = <<>>
  /\ graphCache = EmptyGraph
  /\ builds = 0
  /\ buildResult = "none"
  /\ unlinked = {}

\* no change event handled, nothing sent, served or written
InitCoordinator ==
  /\ microtasks = <<>>
  /\ sent = <<>>
  /\ hmrLog = <<>>
  /\ published = 0
  /\ served = <<>>
  /\ depsJson = <<>>

\* applyAlias is only called from generateGraph
InitNoAliasCall ==
  /\ aliasCall = <<>>
  /\ aliasResult = <<>>

\* calculateDepths is only called from generateGraph
InitNoDepthCall ==
  /\ depthCall = <<>>
  /\ depthResult = <<>>
  /\ callStack = <<>>
  /\ closure = newClosure
  /\ returned = <<>>
  /\ nodeIndex = 1

\* classifyNodeTypes is only called from generateGraph
InitNoClassifyCall ==
  /\ classifyCall = <<>>
  /\ classifyResult = <<>>

\* new PerformanceOptimizer(camera, scene)
InitOptimizer ==
  /\ nodeMap = <<>>
  /\ visibleNodes = {}
  /\ calls = <<>>

\* no function is exercised on its own
InitNoUnitCall ==
  /\ InitNoAliasCall
  /\ InitNoDepthCall
  /\ InitNoClassifyCall
  /\ InitOptimizer

Init ==
  /\ InitRegistry
  /\ InitCoordinator
  /\ InitNoUnitCall
  /\ fullReload = FALSE
  /\ options \in OptionChoices
  /\ manifest = Manifest({<<"l", "o", "d", "a", "s", "h">>}, {})

Next == ResolveSource \/ collectGraph

Spec == Init /\ [][Next]_vars

InitGhost ==
  /\ InitRegistry
  /\ InitCoordinator
  /\ InitNoUnitCall
  /\ fullReload = FALSE
  /\ options \in {DefaultOptions, ConfiguredOptions(Infinity), PackageOptions}
  /\ manifest \in ManifestChoices

NextGhost == ResolvePackage \/ collectGraph

SpecGhost == InitGhost /\ [][NextGhost]_vars

----------------------------------------------------------------------------
(* Files that stop being readable while the registry still holds them *)

\* the file of a module of the registry is removed, or locked by an editor:
\* statSync(id) throws from now on
Unlink(id) ==
  /\ id \in Range(modules)
  /\ Len(statSync(id)) > 0
  /\ Cardinality(unlinked) < MaxUnlinked
  /\ unlinked' = unlinked \cup {id}
  /\ UNCHANGED <<modules, moduleInfo, options, manifest, graphCache, builds, buildResult>>
  /\ UNCHANGED <<hmrVars, unitVars>>

UnlinkSource == \E id \in SourceIds : Unlink(id)

\* the project configured with an alias, an exclusion and a depth limit
InitStat ==
  /\ InitRegistry
  /\ InitCoordinator
  /\ InitNoUnitCall
  /\ fullReload = FALSE
  /\ options = ConfiguredOptions(Num(1))
  /\ manifest = Manifest({<<"l", "o", "d", "a", "s", "h">>}, {})

NextStat == ResolveSource \/ UnlinkSource \/ collectGraph

SpecStat == InitStat /\ [][NextStat]_vars

----------------------------------------------------------------------------
(* src/server/index.ts: hotUpdate and the JSON API of the dev server.      *)
(* Every handler of the host runs as one job; the continuation of a call  *)
(* of collectGraph that is not awaited runs as a job of its own, before    *)
(* the host delivers its next event.                                       *)

\* files whose change the host reports: a source module and a style sheet
StyleCss == <<"/", "p", "/", "s", "r", "c", "/", "s", ".", "c", "s", "s">>

ChangedFiles == {SrcA, StyleCss}

\* the modules the dev server resolves while it runs, with their imports
HmrIds == {SrcA, SrcB}

HmrInfo(id) == IF id = SrcA THEN Info(<<SrcB>>) ELSE Info(<<>>)

ResolveServed ==
  /\ microtasks = <<>>
  /\ \E id \in HmrIds : Resolve(id, HmrInfo(id))

\* the snapshot is replaced only while none is published
publishOnce(old, new) == IF old = EmptyGraph THEN new ELSE old

\* the nodes of the published snapshot are replaced, the rest is kept
publishNodes(old, new) == [old EXCEPT !.nodes = new.nodes]

\* graphCache = (the value the promise of generateGraph resolved with)
publish(old, new) == new

\* hotUpdate(ctx, options) with ctx.file = file: in full-reload mode one
\* message; otherwise collectGraph is called and not awaited, it runs up to
\* its await, and the message is sent with the graphCache of that moment
hotUpdate(file) ==
  /\ microtasks = <<>>
  /\ Len(hmrLog) < MaxEvents
  /\ IF fullReload
     THEN /\ sent' = Append(sent, [fullReload |-> TRUE])
          /\ hmrLog' = Append(hmrLog, [file |-> file, rebuilds |-> 0, messages |-> 1,
                                        result |-> <<>>])
          /\ UNCHANGED microtasks
     ELSE LET g == generateGraph(modules, moduleInfo, manifest, options)
          IN  /\ microtasks' = Append(microtasks, [event |-> Len(hmrLog) + 1, promise |-> g])
              /\ sent' = Append(sent, [updatedModule |-> file, graph |-> graphCache])
              /\ hmrLog' = Append(hmrLog, [file |-> file, rebuilds |-> 1, messages |-> 1,
                                            result |-> <<g>>])
  /\ UNCHANGED <<graphVars, fullReload, published, served, depsJson, unitVars>>

handleHotUpdate == \E file \in ChangedFiles : hotUpdate(file)

\* collectGraph resumes after its await: graphCache = ...; a rejected
\* promise throws there and graphCache is left as it is
collectGraphResumes ==
  /\ microtasks # <<>>
  /\ LET job == Head(microtasks)
     IN  /\ graphCache' = IF job.promise.rejected THEN leftOnRejection(graphCache)
                          ELSE publish(graphCache, job.promise.value)
         /\ published' = IF job.promise.rejected THEN published ELSE job.event
         /\ builds' = IF job.promise.rejected THEN builds ELSE IF builds = 0 THEN 1 ELSE 2
         /\ buildResult' = IF job.promise.rejected THEN "rejected" ELSE "adopted"
  /\ microtasks' = Tail(microtasks)
  /\ UNCHANGED <<modules, moduleInfo, options, manifest, unlinked>>
  /\ UNCHANGED <<fullReload, sent, hmrLog, served, depsJson, unitVars>>

\* GET apiPath: res.end(JSON.stringify({ graph: graphCache, options }))
apiRequest ==
  /\ microtasks = <<>>
  /\ served' = <<graphCache>>
  /\ UNCHANGED <<graphVars, fullReload, microtasks, sent, hmrLog, published, depsJson, unitVars>>

InitHmr ==
  /\ InitRegistry
  /\ InitCoordinator
  /\ InitNoUnitCall
  /\ fullReload \in BOOLEAN
  /\ options = DefaultOptions
  /\ manifest = Manifest({}, {})

NextHmr == ResolveServed \/ handleHotUpdate \/ collectGraphResumes \/ apiRequest

SpecHmr == InitHmr /\ [][NextHmr]_vars

\* package.json is written, removed or damaged between two events of the
\* host: detectGhostPkgs reads it anew in every build
PackageJsonChanges ==
  /\ microtasks = <<>>
  /\ \E pkg \in {Manifest({}, {}), UnreadableManifest} :
        /\ pkg # manifest
        /\ manifest' = pkg
  /\ UNCHANGED <<modules, moduleInfo, options, graphCache, builds, buildResult, unlinked>>
  /\ UNCHANGED <<hmrVars, unitVars>>

\* the dev server with rebuilds on, started with or without a readable
\* package.json
InitRebuild ==
  /\ InitRegistry
  /\ InitCoordinator
  /\ InitNoUnitCall
  /\ fullReload = FALSE
  /\ options = DefaultOptions
  /\ manifest \in {Manifest({}, {}), UnreadableManifest}

NextRebuild ==
  ResolveServed \/ handleHotUpdate \/ collectGraphResumes \/ apiRequest \/ PackageJsonChanges

SpecRebuild == InitRebuild /\ [][NextRebuild]_vars

----------------------------------------------------------------------------
(* src/index.ts and src/prod-report.ts: the hooks of a production build.   *)
(* The host calls buildStart before it loads any module, loads the modules *)
(* of the bundle, and calls writeBundle once the bundle is written.        *)

\* buildStart() { collectGraph(this, mergedOptions) }
buildStart ==
  /\ buildResult = "none"
  /\ modules = <<>>
  /\ collectGraph

\* the host loads one more module of the bundle
ResolveBundled ==
  /\ buildResult # "none"
  /\ depsJson = <<>>
  /\ ResolveSource

\* writeBundle: renderPoster, which reads options only, then
\* writeJSON: writeFileSync(outputPath, JSON.stringify(graphCache, null, 2))
writeBundle ==
  /\ buildResult # "none"
  /\ depsJson' = <<graphCache>>
  /\ UNCHANGED <<graphVars, fullReload, microtasks, sent, hmrLog, published, served, unitVars>>

NextBuild == buildStart \/ ResolveBundled \/ writeBundle

SpecBuild == Init /\ [][NextBuild]_vars

----------------------------------------------------------------------------
(* applyAlias on its own: the ids and alias objects it is called with *)

FormatTs == <<"@", "/", "u", "t", "i", "l", "s", "/", "f", "o", "r", "m", "a", "t", ".", "t", "s">>

AliasIds ==
  {FormatTs, <<"@", "/", "a">>, <<"s", "r", "c", "/", "a">>, <<"a", "/", "@">>, <<"~", "/", "a">>, <<>>}

\* entries of alias objects: <<key, value>>
AliasEntries ==
  {<<<<"@">>, <<"s", "r", "c">>>>, <<<<"s", "r", "c">>, <<"l", "i", "b">>>>, <<<<"@", "/">>, <<"~", "/">>>>, <<<<"~">>, <<"$", "$">>>>, <<<<"a">>, <<"$", "&", "b">>>>}

\* the alias objects: lists of entries with different keys, in the order of
\* Object.entries
RECURSIVE AliasObjects(_)
AliasObjects(n) ==
  IF n = 0 THEN {<<>>}
  ELSE AliasObjects(n - 1) \cup
       {Append(a, e) : a \in {b \in AliasObjects(n - 1) : Len(b) = n - 1},
                       e \in AliasEntries}

DistinctKeys(a) == \A i, j \in 1..Len(a) : a[i][1] = a[j][1] => i = j

InitAlias ==
  /\ InitRegistry
  /\ InitCoordinator
  /\ fullReload = FALSE
  /\ options = DefaultOptions
  /\ manifest = Manifest({}, {})
  /\ aliasCall \in {<<id, a>> : id \in AliasIds,
                                a \in {b \in AliasObjects(MaxAliasEntries) : DistinctKeys(b)}}
  /\ aliasResult = <<>>
  /\ InitNoDepthCall
  /\ InitNoClassifyCall
  /\ InitOptimizer

\* the call returns
applyAliasReturns ==
  /\ aliasResult = <<>>
  /\ aliasResult' = <<applyAlias(aliasCall[1], aliasCall[2])>>
  /\ UNCHANGED <<aliasCall, depthVars, classifyVars, optimizerVars, graphVars, hmrVars>>

NextAlias == applyAliasReturns

SpecAlias == InitAlias /\ [][NextAlias]_vars

----------------------------------------------------------------------------
(* calculateDepths on its own: the node and edge lists that generateGraph   *)
(* can hand to it. The nodes come in registry order, each with the edges   *)
(* of its imports, in import order; the source of an edge is always a node, *)
(* its target need not be one.                                              *)

IdPool == <<"a", "b", "c", "d", "e">>

\* the normalized ids of the calls
DepthIds == {<<IdPool[i]>> : i \in 1..MaxNodes}

\* the orders a set of ids can come in
RECURSIVE Orders(_)
Orders(S) ==
  IF S = {} THEN {<<>>}
  ELSE UNION {{<<x>> \o o : o \in Orders(S \ {x})} : x \in S}

\* the node lists: the ids of some modules, in some registry order
NodeLists == UNION {Orders(S) : S \in SUBSET DepthIds}

\* the imports of one module: different targets, in import order
ImportLists ==
  {l \in UNION {[1..n -> DepthIds] : n \in 0..MaxImports} :
     \A i, j \in 1..Len(l) : l[i] = l[j] => i = j}

\* nodes.push({ id: shortId, size, mtime, depth: 0 }) for every id
nodesOf(order) ==
  [i \in 1..Len(order) |->
     [depth |-> Num(0), id |-> order[i], type |-> "other", size |-> 0, mtime |-> 0]]

\* the edges pushed for the modules, one module after the other
RECURSIVE edgesOf(_, _)
edgesOf(order, imports) ==
  IF Len(order) = 0 THEN <<>>
  ELSE [k \in 1..Len(imports[1]) |-> edgeOf(order[1], imports[1][k])]
         \o edgesOf(Tail(order), Tail(imports))

InitDepth ==
  /\ InitRegistry
  /\ InitCoordinator
  /\ InitNoAliasCall
  /\ InitNoClassifyCall
  /\ InitOptimizer
  /\ fullReload = FALSE
  /\ options = DefaultOptions
  /\ manifest = Manifest({}, {})
  /\ \E order \in NodeLists :
        \E imports \in [1..Len(order) -> ImportLists] :
           \E maxDepth \in {Infinity, Num(1)} :
              depthCall = <<nodesOf(order), edgesOf(order, imports),
                            [DefaultOptions EXCEPT !.maxDepth = maxDepth]>>
  /\ depthResult = <<>>
  /\ callStack = <<>>
  /\ closure = newClosure
  /\ returned = <<>>
  /\ nodeIndex = 1

\* the call returns
calculateDepthsReturns ==
  /\ depthResult = <<>>
  /\ depthResult' =
        <<[writes |-> depthRun(depthCall[1], depthCall[2], depthCall[3]).writes,
           nodes |-> calculateDepths(depthCall[1], depthCall[2], depthCall[3])]>>
  /\ UNCHANGED <<depthCall, dfsVars, aliasVars, classifyVars, optimizerVars, graphVars, hmrVars>>

NextDepth == calculateDepthsReturns

SpecDepth == InitDepth /\ [][NextDepth]_vars

----------------------------------------------------------------------------
(* calculateDepths, one step of the interpreter at a time: every activation *)
(* of dfs is a frame of callStack, at its entry or in its loop over the     *)
(* dependents.                                                              *)

Top == callStack[Len(callStack)]

Pop == SubSeq(callStack, 1, Len(callStack) - 1)

\* the activation dfs(nodeId), about to run its first statement
enter(nodeId) ==
  [nodeId |-> nodeId, maxDepthVal |-> Num(0), dependents |-> <<>>, pc |-> "enter"]

\* for (const node of nodes) { if (!visited.has(node.id)) dfs(node.id) }:
\* the value dfs returned to the loop before is dropped
forNode ==
  /\ depthResult = <<>> /\ callStack = <<>>
  /\ nodeIndex <= Len(depthCall[1])
  /\ callStack' = IF depthCall[1][nodeIndex].id \in closure.visited THEN callStack
                  ELSE <<enter(depthCall[1][nodeIndex].id)>>
  /\ nodeIndex' = nodeIndex + 1
  /\ returned' = <<>>
  /\ UNCHANGED <<depthCall, depthResult, closure, aliasVars, classifyVars, optimizerVars, graphVars, hmrVars>>

\* dfs, lines 14 to 27: a node met before returns what depthMap holds for
\* it; a node without dependents gets depth 0; any other starts its loop
dfsEnter ==
  /\ callStack # <<>> /\ Top.pc = "enter"
  /\ LET nodeId == Top.nodeId
         dependents == dependentsOf(depthCall[2], nodeId)
         st1 == [closure EXCEPT !.visited = @ \cup {nodeId}]
     IN  IF visitedHas(nodeId, depthCall[2], closure)
         THEN /\ returned' = <<depthOf(closure.depthMap, nodeId)>>
              /\ callStack' = Pop
              /\ UNCHANGED closure
         ELSE IF Len(dependents) = 0
         THEN /\ closure' = assignDepth(st1, nodeId, Num(0))
              /\ returned' = <<Num(0)>>
              /\ callStack' = Pop
         ELSE /\ closure' = st1
              /\ returned' = <<>>
              /\ callStack' = Append(Pop, [Top EXCEPT !.dependents = dependents, !.pc = "loop"])
  /\ UNCHANGED <<depthCall, depthResult, nodeIndex, aliasVars, classifyVars, optimizerVars, graphVars, hmrVars>>

\* for (const dep of dependents) { const depth = dfs(dep.source) + 1: the
\* call
dfsCalls ==
  /\ callStack # <<>> /\ Top.pc = "loop"
  /\ returned = <<>> /\ Top.dependents # <<>>
  /\ callStack' = Append(callStack, enter(Top.dependents[1].source))
  /\ UNCHANGED <<depthCall, depthResult, closure, returned, nodeIndex, aliasVars, classifyVars, optimizerVars, graphVars, hmrVars>>

\* the call has returned: depth = (the value) + 1;
\* if (depth > maxDepthVal) maxDepthVal = depth; and on to the next dependent
dfsTakesDepth ==
  /\ callStack # <<>> /\ Top.pc = "loop"
  /\ returned # <<>>
  /\ callStack' = Append(Pop, [Top EXCEPT !.dependents = Tail(@),
                                          !.maxDepthVal = keepDeeper(JSAdd1(returned[1]), @)])
  /\ returned' = <<>>
  /\ UNCHANGED <<depthCall, depthResult, closure, nodeIndex, aliasVars, classifyVars, optimizerVars, graphVars, hmrVars>>

\* the loop is done: lines 37 to 42
dfsReturns ==
  /\ callStack # <<>> /\ Top.pc = "loop"
  /\ returned = <<>> /\ Top.dependents = <<>>
  /\ LET maxDepthVal == clampDepth(Top.maxDepthVal, depthCall[3].maxDepth)
     IN  /\ closure' = assignDepth(closure, Top.nodeId, maxDepthVal)
         /\ returned' = <<maxDepthVal>>
  /\ callStack' = Pop
  /\ UNCHANGED <<depthCall, depthResult, nodeIndex, aliasVars, classifyVars, optimizerVars, graphVars, hmrVars>>

\* return nodes.map(node => ({ ...node, depth: depthMap[node.id] || 0 }))
calculateDepthsMaps ==
  /\ depthResult = <<>> /\ callStack = <<>>
  /\ nodeIndex > Len(depthCall[1])
  /\ depthResult' =
        <<[writes |-> closure.writes,
           nodes |-> [i \in 1..Len(depthCall[1]) |->
                       [depthCall[1][i] EXCEPT
                          !.depth = JSOrZero(depthOf(closure.depthMap, depthCall[1][i].id))]]]>>
  /\ UNCHANGED <<depthCall, dfsVars, aliasVars, classifyVars, optimizerVars, graphVars, hmrVars>>

NextDfs ==
  forNode \/ dfsEnter \/ dfsCalls \/ dfsTakesDepth \/ dfsReturns \/ calculateDepthsMaps

\* the interpreter takes a step whenever it can: nothing of calculateDepths
\* waits for anything
SpecDfs == InitDepth /\ [][NextDfs]_vars /\ WF_vars(NextDfs)

----------------------------------------------------------------------------
(* classifyNodeTypes on its own: node ids and custom rules *)

\* normalized ids of nodes
ClassifiedIds ==
  {<<"s", "r", "c", "/", "u", "t", "i", "l", "s", "/", "u", "i", ".", "t", "s">>,
   <<"s", "r", "c", "/", "u", "i", "/", "l", "i", "b", ".", "t", "s">>,
   <<"l", "i", "b", "/", "a", "p", "i", ".", "t", "s">>,
   <<"s", "r", "c", "/", "b", "u", "i", "l", "d", ".", "t", "s">>,
   <<"s", "r", "c", "/", "c", "o", "m", "p", "o", "n", "e", "n", "t", ".", "t", "s">>,
   <<"s", "r", "c", "/", "r", "o", "u", "t", "e", "r", ".", "t", "s">>,
   <<"s", "r", "c", "/", "a", ".", "t", "s">>,
   <<"l", "i", "b", "r", "a", "r", "y", "/", "u", "t", "i", "l", ".", "t", "s">>}

\* custom rules: { pattern, type }
TypeRules ==
  {[pattern |-> [anchored |-> FALSE, text |-> <<"u", "i">>], type |-> "lib"],
   [pattern |-> [anchored |-> TRUE, text |-> <<"s", "r", "c", "/">>], type |-> "entry"],
   [pattern |-> [anchored |-> FALSE, text |-> <<"a", "p", "i">>], type |-> "util"],
   [pattern |-> [anchored |-> FALSE, text |-> <<".", "t", "s">>], type |-> "ui"]}

\* the lists of custom rules, in the configured order
RuleLists ==
  {l \in UNION {[1..n -> TypeRules] : n \in 0..MaxRules} :
     \A i, j \in 1..Len(l) : l[i] = l[j] => i = j}

\* the node lists of the calls: some ids, in some order
ClassifiedLists ==
  {l \in UNION {[1..n -> ClassifiedIds] : n \in 1..MaxClassified} :
     \A i, j \in 1..Len(l) : l[i] = l[j] => i = j}

InitClassify ==
  /\ InitRegistry
  /\ InitCoordinator
  /\ InitNoAliasCall
  /\ InitNoDepthCall
  /\ InitOptimizer
  /\ fullReload = FALSE
  /\ options = DefaultOptions
  /\ manifest = Manifest({}, {})
  /\ classifyCall \in {<<nodesOf(l), [DefaultOptions EXCEPT !.customTypeRules = rules]>> :
                          l \in ClassifiedLists, rules \in RuleLists}
  /\ classifyResult = <<>>

\* the call returns
classifyNodeTypesReturns ==
  /\ classifyResult = <<>>
  /\ classifyResult' = <<classifyNodeTypes(classifyCall[1], classifyCall[2])>>
  /\ UNCHANGED <<classifyCall, aliasVars, depthVars, optimizerVars, graphVars, hmrVars>>

NextClassify == classifyNodeTypesReturns

SpecClassify == InitClassify /\ [][NextClassify]_vars

----------------------------------------------------------------------------
(* PerformanceOptimizer (src/unnamed/part_004), as it runs in a           *)
(* browser (window.setInterval exists). nodeMap is a Map, kept as the list *)
(* of its entries in insertion order.                                       *)

OptimizerIds == {"node1", "node2", "node3"}

\* new THREE.LOD() with its three levels: an Object3D that holds levels;
\* it has no geometry property, so lod.geometry is undefined (<<>>)
newLOD == [levels |-> <<"high", "medium", "low">>, geometry |-> <<>>]

\* this.nodeMap.set(id, { mesh, lod, node }): the entry of a key that is
\* there keeps its place; inFrustum tells whether the bounding sphere of
\* the mesh, where the mesh is, intersects the frustum of the camera
mapSet(entries, id, inFrustum) ==
  LET entry == [id |-> id, inFrustum |-> inFrustum, lod |-> newLOD]
  IN  IF \E i \in 1..Len(entries) : entries[i].id = id
      THEN [i \in 1..Len(entries) |-> IF entries[i].id = id THEN entry ELSE entries[i]]
      ELSE Append(entries, entry)

\* the visible set is left as it is
keepVisible(visible) == visible

\* this.visibleNodes.clear()
clearVisible(visible) == {}

\* the callback of nodeMap.forEach in updateVisibleNodes, entry after
\* entry: lod.geometry.computeBoundingSphere() throws a TypeError when
\* lod.geometry is undefined, which ends forEach and the method
RECURSIVE forEachNode(_, _)
forEachNode(entries, visible) ==
  IF Len(entries) = 0 THEN [visible |-> visible, threw |-> FALSE]
  ELSE IF entries[1].lod.geometry = <<>> THEN [visible |-> visible, threw |-> TRUE]
  ELSE LET isVisible == entries[1].inFrustum
       IN  forEachNode(Tail(entries),
                       IF isVisible THEN visible \cup {entries[1].id}
                       ELSE visible \ {entries[1].id})

\* addNode(id, node, baseMesh)
addNode(id, inFrustum) ==
  /\ Len(calls) < MaxCalls
  /\ nodeMap' = mapSet(nodeMap, id, inFrustum)
  /\ visibleNodes' = visibleNodes \cup {id}
  /\ calls' = Append(calls, [id |-> id, threw |-> FALSE, method |-> "addNode"])
  /\ UNCHANGED <<aliasVars, depthVars, classifyVars, graphVars, hmrVars>>

addNodeCalled == \E id \in OptimizerIds : \E inFrustum \in BOOLEAN : addNode(id, inFrustum)

\* updateVisibleNodes(): cleanupUnused releases nothing
updateVisibleNodes ==
  /\ Len(calls) < MaxCalls
  /\ LET r == forEachNode(nodeMap, visibleNodes)
     IN  /\ visibleNodes' = r.visible
         /\ calls' = Append(calls, [id |-> "", threw |-> r.threw, method |-> "updateVisibleNodes"])
  /\ UNCHANGED <<nodeMap, aliasVars, depthVars, classifyVars, graphVars, hmrVars>>

\* dispose(): the geometries and materials of every lod are disposed of,
\* then nodeMap.clear(), visibleNodes.clear(), memoryManager.dispose()
dispose ==
  /\ Len(calls) < MaxCalls
  /\ nodeMap' = <<>>
  /\ visibleNodes' = clearVisible(visibleNodes)
  /\ calls' = Append(calls, [id |-> "", threw |-> FALSE, method |-> "dispose"])
  /\ UNCHANGED <<aliasVars, depthVars, classifyVars, graphVars, hmrVars>>

InitOptimizerAlone ==
  /\ InitRegistry
  /\ InitCoordinator
  /\ InitNoUnitCall
  /\ fullReload = FALSE
  /\ options = DefaultOptions
  /\ manifest = Manifest({}, {})

NextOptimizer == addNodeCalled \/ updateVisibleNodes \/ dispose

SpecOptimizer == InitOptimizerAlone /\ [][NextOptimizer]_vars

----------------------------------------------------------------------------
(* Vocabulary of the properties *)

NodeIds(g) == {g.nodes[i].id : i \in 1..Len(g.nodes)}

\* the node of g with the given id
NodeOf(g, id) == g.nodes[CHOOSE i \in 1..Len(g.nodes) : g.nodes[i].id = id]

\* the normalized id of a module id: relative to the root, then aliased
Normalized(id) == applyAlias(relative(RootDir, id), options.alias)

Excluded(id) == \E i \in 1..Len(options.exclude) : RegexTest(options.exclude[i], id)

\* positions in the registry of the modules that normalize to nid and have
\* module info
Candidates(nid) ==
  {i \in 1..Len(modules) : ~moduleInfo[modules[i]].isNull /\ Normalized(modules[i]) = nid}

\* the first module, in registry order, that normalizes to nid
FirstModule(nid) ==
  modules[CHOOSE i \in Candidates(nid) : \A j \in Candidates(nid) : i <= j]

StatSize(id) == IF Len(statSync(id)) > 0 THEN statSync(id)[1].size ELSE 0

StatMtime(id) == IF Len(statSync(id)) > 0 THEN statSync(id)[1].mtime ELSE 0

\* graphCache holds the build of the registry as it stands
Built == builds >= 1

----------------------------------------------------------------------------
(* Properties of the graph builder, checked under Spec *)

\* C1: every edge of the snapshot has a source id that is the id of a node
\* of the same snapshot.
C1_EdgeSourcesAreNodes ==
  \A i \in 1..Len(graphCache.edges) : graphCache.edges[i].source \in NodeIds(graphCache)

\* a snapshot built with an edge to a node and an edge to an id without node
C1_Witness ==
  /\ Built
  /\ \E i \in 1..Len(graphCache.edges) : graphCache.edges[i].target \in NodeIds(graphCache)
  /\ \E i \in 1..Len(graphCache.edges) : graphCache.edges[i].target \notin NodeIds(graphCache)

\* C2: node ids are unique within a snapshot; the modules that normalize to
\* one value yield exactly one node, and its size and modification time are
\* those of the first such module in registry order.
C2_UniqueNodesFirstWins ==
  /\ \A i, j \in 1..Len(graphCache.nodes) :
        i # j => graphCache.nodes[i].id # graphCache.nodes[j].id
  /\ \A i \in 1..Len(graphCache.nodes) :
        LET n == graphCache.nodes[i]
        IN  /\ Candidates(n.id) # {}
            /\ n.size = StatSize(FirstModule(n.id))
            /\ n.mtime = StatMtime(FirstModule(n.id))
  /\ Built =>
       \A k \in 1..Len(modules) :
          (~moduleInfo[modules[k]].isNull /\ ~Excluded(Normalized(modules[k])))
            => Cardinality({i \in 1..Len(graphCache.nodes) :
                              graphCache.nodes[i].id = Normalized(modules[k])}) = 1

\* two modules of the registry normalize to the id of one node
C2_Witness ==
  /\ Built
  /\ SrcA \in Range(modules) /\ AliasA \in Range(modules)
  /\ Normalized(SrcA) = Normalized(AliasA)
  /\ Normalized(SrcA) \in NodeIds(graphCache)

\* C3, as claimed: both ends of every edge are ids of nodes of the snapshot.
C3_NoDanglingEdges ==
  \A i \in 1..Len(graphCache.edges) :
     /\ graphCache.edges[i].source \in NodeIds(graphCache)
     /\ graphCache.edges[i].target \in NodeIds(graphCache)

\* C3, amended: the source of every edge is the id of a node, its target is
\* the normalized id of an import of the module that node was built from and
\* matches no exclusion pattern; every import of that module whose normalized
\* id matches no exclusion pattern has its edge, whether or not the target
\* has a node.
C3_EdgesOfKeptImports ==
  /\ \A i \in 1..Len(graphCache.edges) :
        LET e == graphCache.edges[i]
        IN  /\ e.source \in NodeIds(graphCache)
            /\ ~Excluded(e.target)
            /\ \E k \in 1..Len(moduleInfo[FirstModule(e.source)].importedIds) :
                  Normalized(moduleInfo[FirstModule(e.source)].importedIds[k]) = e.target
  /\ Built =>
       \A nid \in NodeIds(graphCache) :
          \A k \in 1..Len(moduleInfo[FirstModule(nid)].importedIds) :
             LET target == Normalized(moduleInfo[FirstModule(nid)].importedIds[k])
             IN  ~Excluded(target) =>
                   \E i \in 1..Len(graphCache.edges) :
                      graphCache.edges[i] = [source |-> nid, target |-> target]

\* a snapshot with an edge to an id without node, built from a module that
\* also imports an excluded module
C3_Witness ==
  /\ Built
  /\ \E i \in 1..Len(graphCache.edges) : graphCache.edges[i].target \notin NodeIds(graphCache)
  /\ \E nid \in NodeIds(graphCache) :
        \E k \in 1..Len(moduleInfo[FirstModule(nid)].importedIds) :
           Excluded(Normalized(moduleInfo[FirstModule(nid)].importedIds[k]))

\* C4: no node and no end of an edge of the snapshot is an id that matches
\* an exclusion pattern.
C4_ExcludedIdsAbsent ==
  /\ \A i \in 1..Len(graphCache.nodes) : ~Excluded(graphCache.nodes[i].id)
  /\ \A i \in 1..Len(graphCache.edges) :
        ~Excluded(graphCache.edges[i].source) /\ ~Excluded(graphCache.edges[i].target)

\* the registry holds an excluded module, and a module with a node imports it
C4_Witness ==
  /\ Built
  /\ TestH \in Range(modules) /\ Excluded(Normalized(TestH))
  /\ \E nid \in NodeIds(graphCache) :
        \E k \in 1..Len(moduleInfo[FirstModule(nid)].importedIds) :
           moduleInfo[FirstModule(nid)].importedIds[k] = TestH

\* C5: every node that is the target of no edge has depth 0.
C5_NoDependentsDepthZero ==
  \A i \in 1..Len(graphCache.nodes) :
     (\A k \in 1..Len(graphCache.edges) :
         graphCache.edges[k].target # graphCache.nodes[i].id)
       => graphCache.nodes[i].depth = Num(0)

\* a node without dependents next to a node whose depth is not 0
C5_Witness ==
  /\ \E i \in 1..Len(graphCache.nodes) :
        \A k \in 1..Len(graphCache.edges) :
           graphCache.edges[k].target # graphCache.nodes[i].id
  /\ \E i \in 1..Len(graphCache.nodes) : graphCache.nodes[i].depth # Num(0)

\* C6: the depth of every node is at most the configured maximum depth.
C6_DepthWithinMaxDepth ==
  \A i \in 1..Len(graphCache.nodes) :
     LET d == graphCache.nodes[i].depth
     IN  \/ options.maxDepth.t = "Infinity" /\ d.t \in {"number", "Infinity"}
         \/ options.maxDepth.t = "number" /\ d.t = "number" /\ d.v <= options.maxDepth.v

\* a node at the maximum depth has a dependent that is at the maximum depth
\* too: its depth was cut
C6_Witness ==
  /\ options.maxDepth.t = "number"
  /\ \E i \in 1..Len(graphCache.edges) :
        LET e == graphCache.edges[i]
        IN  /\ e.source # e.target
            /\ e.target \in NodeIds(graphCache)
            /\ NodeOf(graphCache, e.source).depth = options.maxDepth
            /\ NodeOf(graphCache, e.target).depth = options.maxDepth

\* C7: the depth of every node is an integer that is at least 0.
C7_DepthIsNatural ==
  \A i \in 1..Len(graphCache.nodes) :
     graphCache.nodes[i].depth.t = "number" /\ graphCache.nodes[i].depth.v \in Nat

\* a snapshot with two nodes that import each other
C7_Witness ==
  /\ Built
  /\ \E i, j \in 1..Len(graphCache.edges) :
        /\ graphCache.edges[i].source # graphCache.edges[i].target
        /\ graphCache.edges[i].source = graphCache.edges[j].target
        /\ graphCache.edges[i].target = graphCache.edges[j].source

ImportTargets(nid) ==
  [k \in 1..Len(moduleInfo[FirstModule(nid)].importedIds) |->
     Normalized(moduleInfo[FirstModule(nid)].importedIds[k])]

\* the edges from nid to the given targets
EdgesTo(nid, targets) == [k \in 1..Len(targets) |-> [source |-> nid, target |-> targets[k]]]

\* the edges from every node to all its import targets, node after node
RECURSIVE AllImportEdges(_)
AllImportEdges(nodes) ==
  IF Len(nodes) = 0 THEN <<>>
  ELSE EdgesTo(nodes[1].id, ImportTargets(nodes[1].id)) \o AllImportEdges(Tail(nodes))

\* the same without the targets that match an exclusion pattern
RECURSIVE KeptImportEdges(_)
KeptImportEdges(nodes) ==
  IF Len(nodes) = 0 THEN <<>>
  ELSE EdgesTo(nodes[1].id,
               SelectSeq(ImportTargets(nodes[1].id), LAMBDA target : ~Excluded(target)))
         \o KeptImportEdges(Tail(nodes))

\* C27, as claimed: the edge list of a build holds, in traversal order, an
\* edge for every import of every kept module, whether the target is
\* excluded, has no node, or has one.
C27_AllImportEdgesRetained ==
  Built => graphCache.edges = AllImportEdges(graphCache.nodes)

\* C27, amended: the edge list of a build holds, in traversal order (the
\* kept modules in registry order, the imports of each in import order), an
\* edge for every import whose normalized id matches no exclusion pattern,
\* whether the target has a node or not, and nothing else; an import whose
\* normalized id matches an exclusion pattern has no edge.
C27_KeptImportEdgesInOrder ==
  Built => graphCache.edges = KeptImportEdges(graphCache.nodes)

\* two kept modules with edges, one of them to a target without node, the
\* other importing an excluded module and a module that is not excluded
C27_Witness ==
  /\ Built
  /\ \E i, j \in 1..Len(graphCache.edges) :
        /\ graphCache.edges[i].source # graphCache.edges[j].source
        /\ graphCache.edges[i].target \notin NodeIds(graphCache)
        /\ \E k \in 1..Len(ImportTargets(graphCache.edges[j].source)) :
              Excluded(ImportTargets(graphCache.edges[j].source)[k])

----------------------------------------------------------------------------
(* Properties of the ghost detection, checked under SpecGhost *)

Declared == manifest.dependencies \cup manifest.devDependencies

\* the name at position i of the segments: name, or @scope/name
NameAt(segs, i) ==
  IF Len(segs[i]) > 0 /\ segs[i][1] = "@" /\ i < Len(segs)
  THEN segs[i] \o <<"/">> \o segs[i + 1]
  ELSE segs[i]

\* positions of the third-party marker segment that a name follows
MarkerPositions(id) ==
  {i \in 1..(Len(Split(id, "/")) - 1) : Split(id, "/")[i] = <<"n", "o", "d", "e", "_", "m", "o", "d", "u", "l", "e", "s">>}

\* the module id reaches its package through a third-party path segment
ThirdParty(id) == MarkerPositions(id) # {}

\* the package a module id belongs to: <<name>>, or <<>> for a path of the
\* project
PackageOf(id) ==
  LET segs == Split(id, "/")
  IN  IF ThirdParty(id)
      THEN <<NameAt(segs, 1 + CHOOSE i \in MarkerPositions(id) :
                              \A j \in MarkerPositions(id) : j <= i)>>
      ELSE IF Len(id) > 0 /\ id[1] \notin {"/", "."} THEN <<NameAt(segs, 1)>>
      ELSE <<>>

\* C8, as claimed: a module id of a package that the manifest declares never
\* has an entry in the ghosts list.
C8_DeclaredNeverGhost ==
  manifest.readable =>
    \A k \in 1..Len(modules) :
       (PackageOf(modules[k]) # <<>> /\ PackageOf(modules[k])[1] \in Declared)
         => \A i \in 1..Len(graphCache.ghosts) :
               graphCache.ghosts[i] # applyAlias(modules[k], options.alias)

\* C9, as claimed: a package the manifest does not declare and that a module
\* id reaches through a third-party path segment has exactly one entry in
\* the ghosts list, its name.
C9_UndeclaredListedOnce ==
  (Built /\ manifest.readable) =>
    \A k \in 1..Len(modules) :
       (ThirdParty(modules[k]) /\ PackageOf(modules[k])[1] \notin Declared)
         => Count(graphCache.ghosts, applyAlias(PackageOf(modules[k])[1], options.alias)) = 1

\* C13: when package.json cannot be read or parsed, the snapshot published
\* once a call of collectGraph has settled is the snapshot of the registry:
\* its nodes and edges are those of a build with a manifest, its ghosts list
\* is empty.
C13_MissingManifestEmptyGhosts ==
  [][(~manifest.readable /\ buildResult' # buildResult)
       => graphCache' =
            [generateGraph(modules, moduleInfo, Manifest({}, {}), options).value
               EXCEPT !.ghosts = <<>>]]_vars

\* the entries of a list that is not a package name: a name has no slash,
\* but for the one of @scope/name, and does not start with a dot
IsPackageName(s) ==
  /\ Len(s) > 0 /\ s[1] # "." /\ s[1] # "/"
  /\ Cardinality({i \in 1..Len(s) : s[i] = "/"}) = (IF s[1] = "@" THEN 1 ELSE 0)
  /\ s[Len(s)] # "/"

\* C25, as claimed: every entry of the ghosts list is the name of the
\* package of a module id of the registry, alias-substituted: the segment,
\* or the @scope/name pair, after the third-party marker segment, or the
\* start of a bare id; without alias no entry is a path or a whole module
\* id of a file of a package.
C25_GhostsArePackageNames ==
  \A i \in 1..Len(graphCache.ghosts) :
     /\ \E k \in 1..Len(modules) :
           /\ PackageOf(modules[k]) # <<>>
           /\ graphCache.ghosts[i] = applyAlias(PackageOf(modules[k])[1], options.alias)
     /\ options.alias = <<>> => IsPackageName(graphCache.ghosts[i])

\* the ids detectGhostPkgs returns for the registry as it stands
GhostIds == detectGhostPkgs(manifest, modules)

\* C26: no entry of the ghosts list matches an exclusion pattern; an id
\* that detectGhostPkgs returns has its alias-substituted form in the list
\* exactly when that form matches no exclusion pattern, and the list holds
\* nothing else.
C26_GhostsAliasedAndFiltered ==
  /\ \A i \in 1..Len(graphCache.ghosts) : ~Excluded(graphCache.ghosts[i])
  /\ (Built /\ manifest.readable) =>
        /\ \A k \in 1..Len(GhostIds) :
              LET ghost == applyAlias(GhostIds[k], options.alias)
              IN  ghost \in Range(graphCache.ghosts) <=> ~Excluded(ghost)
        /\ \A i \in 1..Len(graphCache.ghosts) :
              \E k \in 1..Len(GhostIds) :
                 graphCache.ghosts[i] = applyAlias(GhostIds[k], options.alias)

\* a snapshot with a ghost, built from a registry with an id that
\* detectGhostPkgs returns and that matches an exclusion pattern only once
\* its alias is substituted, and another that matches one as it is
C26_Witness ==
  /\ Built /\ manifest.readable
  /\ Len(graphCache.ghosts) > 0
  /\ \E k \in 1..Len(GhostIds) :
        /\ ~Excluded(GhostIds[k])
        /\ Excluded(applyAlias(GhostIds[k], options.alias))
  /\ \E k \in 1..Len(GhostIds) : Excluded(GhostIds[k])

----------------------------------------------------------------------------
(* Properties of the graph builder under stat failures, checked under      *)
(* SpecStat                                                                *)

\* node n with the metadata of a file whose stat failed
ZeroStat(n) == [n EXCEPT !.size = 0, !.mtime = 0]

\* the module of the registry that gave graphCache its node nid can no
\* longer be read
StatFails(nid) == Candidates(nid) # {} /\ FirstModule(nid) \in unlinked

\* C12: a build of a registry whose snapshot is already published, made
\* when the stat of some of its modules fails, completes and publishes the
\* same nodes, in the same order, and the same edges as the build before,
\* except that the node of every module whose stat fails has size 0 and
\* modification time 0; the edges of that module are among them.
C12_StatFailureIsolated ==
  [][(Built /\ modules' = modules /\ moduleInfo' = moduleInfo /\ unlinked' = unlinked)
       => /\ buildResult' = "adopted"
          /\ graphCache'.edges = graphCache.edges
          /\ Len(graphCache'.nodes) = Len(graphCache.nodes)
          /\ \A i \in 1..Len(graphCache.nodes) :
                graphCache'.nodes[i] =
                  IF StatFails(graphCache.nodes[i].id)
                  THEN ZeroStat(graphCache.nodes[i])
                  ELSE graphCache.nodes[i]]_vars

\* a snapshot built twice since the registry last changed, after the file
\* of one of its modules stopped being readable: the node of that module
\* has size and modification time 0 and an edge, another node has its size
C12_Witness ==
  /\ builds = 2
  /\ \E n \in NodeIds(graphCache) :
        /\ StatFails(n)
        /\ NodeOf(graphCache, n).size = 0 /\ NodeOf(graphCache, n).mtime = 0
        /\ \E i \in 1..Len(graphCache.edges) : graphCache.edges[i].source = n
  /\ \E n \in NodeIds(graphCache) : NodeOf(graphCache, n).size > 0

----------------------------------------------------------------------------
(* Properties of applyAlias, checked under SpecAlias *)

\* positions of the entries of the alias object whose key is a prefix of id
MatchingEntries(id, a) == {k \in 1..Len(a) : StartsWith(id, a[k][1])}

\* C11: applyAlias applies the first entry, in the order of the alias
\* object, whose key is a prefix of the id, and only that one: the result is
\* the id with that prefix replaced, once, by what the value of the entry
\* stands for, whatever later entries match the id or the result; an id that
\* no key is a prefix of is returned unchanged; {"@": "src"} maps
\* "@/utils/format.ts" to "src/utils/format.ts".
C11_AliasFirstMatchOnly ==
  aliasResult # <<>> =>
    LET id == aliasCall[1]
        a == aliasCall[2]
        m == MatchingEntries(id, a)
    IN  /\ m = {} => aliasResult[1] = id
        /\ m # {} =>
              LET k == CHOOSE k \in m : \A j \in m : k <= j
              IN  aliasResult[1] =
                    GetSubstitution(a[k][2], a[k][1])
                      \o SubSeq(id, Len(a[k][1]) + 1, Len(id))
        /\ (id = FormatTs /\ a = << <<<<"@">>, <<"s", "r", "c">>>> >>) =>
              aliasResult[1] = <<"s", "r", "c", "/", "u", "t", "i", "l", "s", "/", "f", "o", "r", "m", "a", "t", ".", "t", "s">>

\* a call where a second entry matches the id and a later one the result
C11_Witness ==
  /\ aliasCall = <<<<"@", "/", "a">>, << <<<<"@">>, <<"s", "r", "c">>>>, <<<<"s", "r", "c">>, <<"l", "i", "b">>>> >> >>
  /\ aliasResult = <<<<"s", "r", "c", "/", "a">>>>

----------------------------------------------------------------------------
(* Properties of the update coordinator, checked under SpecHmr *)

\* position of the last dot of a path, 0 when it has none
LastDot(path) ==
  CHOOSE i \in 0..Len(path) :
    (i = 0 \/ path[i] = ".") /\ \A j \in (i + 1)..Len(path) : path[j] # "."

\* the extensions of script and component files
RecognizedExtensions == {<<"j", "s">>, <<"t", "s">>, <<"v", "u", "e">>}

\* a change of this path qualifies for a rebuild
RecognizedSource(path) ==
  LastDot(path) > 0 /\ SubSeq(path, LastDot(path) + 1, Len(path)) \in RecognizedExtensions

\* the rebuild that change event k started has produced a snapshot
Rebuilt(k) == hmrLog[k].rebuilds = 1 /\ ~hmrLog[k].result[1].rejected

\* the snapshot that the rebuild of change event k produced
SnapshotOf(k) == hmrLog[k].result[1].value

\* the snapshots of completed builds: the one the server starts with and
\* those of the rebuilds so far
CompletedBuilds == {EmptyGraph} \cup {SnapshotOf(k) : k \in {j \in 1..Len(hmrLog) : Rebuilt(j)}}

\* C14: a change event for a file whose extension is not a recognized
\* source extension starts no rebuild and sends no message.
C14_OtherFilesIgnored ==
  \A k \in 1..Len(hmrLog) :
     ~RecognizedSource(hmrLog[k].file)
       => hmrLog[k].rebuilds = 0 /\ hmrLog[k].messages = 0

\* C15: in full-reload mode every change event for a source file starts a
\* rebuild, and the message sent for it carries the snapshot that rebuild
\* produced.
C15_FullReloadRebuilds ==
  fullReload =>
    \A k \in 1..Len(hmrLog) :
       RecognizedSource(hmrLog[k].file)
         => /\ Rebuilt(k)
            /\ "graph" \in DOMAIN sent[k]
            /\ sent[k].graph = SnapshotOf(k)

\* C16: in incremental mode the message sent for a change event carries the
\* changed path and the snapshot produced by the rebuild the event started.
C16_MessageCarriesRebuiltSnapshot ==
  ~fullReload =>
    \A k \in 1..Len(hmrLog) :
       Rebuilt(k) => /\ sent[k].updatedModule = hmrLog[k].file
                     /\ sent[k].graph = SnapshotOf(k)

C18_OneRebuildPerEvent ==
  \A k \in 1..Len(hmrLog) :
     RecognizedSource(hmrLog[k].file) => hmrLog[k].rebuilds = 1

\* C19: what a reader of the published snapshot gets (graphCache itself,
\* the response of the JSON API, the graph of an update message) is always
\* the snapshot of one completed build: the one the server starts with or
\* the result of one rebuild.
C19_ReadersSeeCompletedBuilds ==
  /\ graphCache \in CompletedBuilds
  /\ \A i \in 1..Len(served) : served[i] \in CompletedBuilds
  /\ \A k \in 1..Len(sent) :
        "graph" \in DOMAIN sent[k] => sent[k].graph \in CompletedBuilds

\* a rebuild is suspended at its await, with a snapshot that differs from
\* the published one in nodes and in edges, after the API has served the
\* published one and a message has carried it
C19_Witness ==
  /\ microtasks # <<>>
  /\ ~Head(microtasks).promise.rejected
  /\ Head(microtasks).promise.value.nodes # graphCache.nodes
  /\ Head(microtasks).promise.value.edges # graphCache.edges
  /\ graphCache # EmptyGraph
  /\ served = <<graphCache>>
  /\ sent[Len(sent)].graph = graphCache

----------------------------------------------------------------------------
(* Properties of the report of a production build, checked under SpecBuild *)

\* C20: deps.json, once written, holds a node for every module of the
\* registry that has module info and whose normalized id no exclusion
\* pattern matches.
C20_ReportHoldsRegistry ==
  depsJson # <<>> =>
    \A k \in 1..Len(modules) :
       (~moduleInfo[modules[k]].isNull /\ ~Excluded(Normalized(modules[k])))
         => Normalized(modules[k]) \in NodeIds(depsJson[1])

----------------------------------------------------------------------------
(* Properties of calculateDepths, checked under SpecDepth *)

\* the ids of the nodes that import n: the sources of the edges to n
Importers(edges, n) == {edges[i].source : i \in {k \in 1..Len(edges) : edges[k].target = n}}

\* the ids that reach n through at most k edges
RECURSIVE Above(_, _, _)
Above(edges, n, k) ==
  IF k = 0 THEN {}
  ELSE LET near == Importers(edges, n)
       IN  near \cup UNION {Above(edges, m, k - 1) : m \in near}

\* no id is above itself
Acyclic(edges) == \A n \in DepthIds : n \notin Above(edges, n, MaxNodes)

Max(S) == CHOOSE x \in S : \A y \in S : y <= x

\* the number of edges of the longest chain of dependents that ends in n,
\* in an acyclic graph
RECURSIVE LongestChain(_, _)
LongestChain(edges, n) ==
  IF Importers(edges, n) = {} THEN 0
  ELSE 1 + Max({LongestChain(edges, m) : m \in Importers(edges, n)})

\* the depth the call gave the node with id n
DepthGiven(n) ==
  LET nodes == depthResult[1].nodes
  IN  nodes[CHOOSE i \in 1..Len(nodes) : nodes[i].id = n].depth

\* C21: for an acyclic graph and no maximum depth, the depth of a node with
\* at least one dependent is 1 plus the largest depth of the nodes that
\* import it, which is the length of the longest chain of dependents above
\* it, whatever the order of the nodes and of the edges.
C21_DepthIsLongestChain ==
  (depthResult # <<>> /\ depthCall[3].maxDepth = Infinity /\ Acyclic(depthCall[2])) =>
    \A i \in 1..Len(depthCall[1]) :
       LET n == depthCall[1][i].id
           above == Importers(depthCall[2], n)
       IN  above # {} =>
             /\ \A m \in above : DepthGiven(m).t = "number"
             /\ DepthGiven(n) = Num(1 + Max({DepthGiven(m).v : m \in above}))
             /\ DepthGiven(n) = Num(LongestChain(depthCall[2], n))

\* an acyclic graph without depth limit where a node of depth 2 is imported
\* by a node of depth 0 and by a node of depth 1, the shallower one first
C21_Witness ==
  /\ depthResult # <<>> /\ depthCall[3].maxDepth = Infinity /\ Acyclic(depthCall[2])
  /\ \E i, j \in 1..Len(depthCall[2]) :
        /\ i < j
        /\ depthCall[2][i].target = depthCall[2][j].target
        /\ depthCall[2][i].target \in {depthCall[1][k].id : k \in 1..Len(depthCall[1])}
        /\ DepthGiven(depthCall[2][i].source) = Num(1)
        /\ DepthGiven(depthCall[2][j].source) = Num(0)
        /\ DepthGiven(depthCall[2][i].target) = Num(2)

\* C22: calculateDepths returns for every graph, with cycles and
\* self-imports or without; a depth, once assigned in depthMap, is never
\* assigned again; when the call returns the depth of every node has been
\* assigned exactly once and no other depth has; and the call returns the
\* depths that the function computed in one evaluation gives.
C22_DepthTerminatesMemoized ==
  /\ <>(depthResult # <<>>)
  /\ [][\A n \in DOMAIN closure.depthMap :
           n \in DOMAIN closure'.depthMap /\ closure'.depthMap[n] = closure.depthMap[n]]_vars
  /\ [](\A n \in DepthIds : Count(closure.writes, n) <= 1)
  /\ [](depthResult # <<>> =>
          /\ \A i \in 1..Len(depthCall[1]) :
                Count(depthResult[1].writes, depthCall[1][i].id) = 1
          /\ Len(depthResult[1].writes) = Len(depthCall[1])
          /\ depthResult[1].nodes = calculateDepths(depthCall[1], depthCall[2], depthCall[3]))

\* a call has returned for a graph where a node imports itself and two
\* other nodes import each other; a node of a cycle was met again while its
\* depth was not assigned yet
C22_Witness ==
  /\ depthResult # <<>>
  /\ \E i \in 1..Len(depthCall[2]) : depthCall[2][i].source = depthCall[2][i].target
  /\ \E i, j \in 1..Len(depthCall[2]) :
        /\ depthCall[2][i].source # depthCall[2][i].target
        /\ depthCall[2][i].source = depthCall[2][j].target
        /\ depthCall[2][i].target = depthCall[2][j].source
  /\ nodeIndex > 1 /\ Len(closure.writes) = Len(depthCall[1])

----------------------------------------------------------------------------
(* Properties of classifyNodeTypes, checked under SpecClassify *)

\* positions of the custom rules whose pattern matches id
MatchingRules(id, rules) == {k \in 1..Len(rules) : RegexTest(rules[k].pattern, id)}

\* the category the built-in tests give id: "util" for an id that contains
\* util, else "ui" for one that contains ui or component, else "lib" for one
\* that contains lib or library, else "other"
Heuristic(id) ==
  CASE Includes(id, <<"u", "t", "i", "l">>) -> "util"
    [] ~Includes(id, <<"u", "t", "i", "l">>)
         /\ (Includes(id, <<"u", "i">>) \/ Includes(id, <<"c", "o", "m", "p", "o", "n", "e", "n", "t">>)) -> "ui"
    [] ~Includes(id, <<"u", "t", "i", "l">>)
         /\ ~(Includes(id, <<"u", "i">>) \/ Includes(id, <<"c", "o", "m", "p", "o", "n", "e", "n", "t">>))
         /\ (Includes(id, <<"l", "i", "b">>) \/ Includes(id, <<"l", "i", "b", "r", "a", "r", "y">>)) -> "lib"
    [] OTHER -> "other"

\* C23: the category of a node whose id at least one custom rule matches is
\* the type of the first such rule in the configured order, whatever the
\* later rules and the built-in tests would give.
C23_FirstCustomRuleWins ==
  classifyResult # <<>> =>
    \A i \in 1..Len(classifyCall[1]) :
       LET id == classifyCall[1][i].id
           rules == classifyCall[2].customTypeRules
           m == MatchingRules(id, rules)
       IN  m # {} =>
             /\ classifyResult[1][i].id = id
             /\ classifyResult[1][i].type = rules[CHOOSE k \in m : \A j \in m : k <= j].type

\* a node matched by two rules of different types, neither of them the
\* type the built-in tests give
C23_Witness ==
  /\ classifyResult # <<>>
  /\ \E i \in 1..Len(classifyCall[1]) :
        LET id == classifyCall[1][i].id
            rules == classifyCall[2].customTypeRules
        IN  /\ MatchingRules(id, rules) = {1, 2}
            /\ rules[1].type # rules[2].type
            /\ Heuristic(id) \notin {rules[1].type, rules[2].type}
            /\ classifyResult[1][i].type = rules[1].type

\* C24: the category of a node whose id no custom rule matches is the one
\* the built-in tests give, in their order of priority, one of util, ui,
\* lib and other; every node of the call has its category in the result.
C24_HeuristicsInPriorityOrder ==
  classifyResult # <<>> =>
    /\ Len(classifyResult[1]) = Len(classifyCall[1])
    /\ \A i \in 1..Len(classifyCall[1]) :
          LET id == classifyCall[1][i].id
          IN  MatchingRules(id, classifyCall[2].customTypeRules) = {}
                => /\ classifyResult[1][i].type = Heuristic(id)
                   /\ classifyResult[1][i].type \in {"util", "ui", "lib", "other"}

\* rules are configured and none matches a node whose id contains util and
\* lib: it is a util; another node of the call contains ui and lib
C24_Witness ==
  /\ classifyResult # <<>>
  /\ classifyCall[2].customTypeRules # <<>>
  /\ \E i, j \in 1..Len(classifyCall[1]) :
        LET a == classifyCall[1][i].id
            b == classifyCall[1][j].id
        IN  /\ MatchingRules(a, classifyCall[2].customTypeRules) = {}
            /\ MatchingRules(b, classifyCall[2].customTypeRules) = {}
            /\ Includes(a, <<"u", "t", "i", "l">>) /\ Includes(a, <<"l", "i", "b">>)
            /\ classifyResult[1][i].type = "util"
            /\ ~Includes(b, <<"u", "t", "i", "l">>) /\ Includes(b, <<"u", "i">>) /\ Includes(b, <<"l", "i", "b">>)
            /\ classifyResult[1][j].type = "ui"

----------------------------------------------------------------------------
(* Properties of the PerformanceOptimizer, checked under SpecOptimizer *)

\* the ids registered in nodeMap
Registered == {nodeMap[i].id : i \in 1..Len(nodeMap)}

\* the registered ids whose bounding sphere intersects the frustum
InFrustum == {nodeMap[i].id : i \in {k \in 1..Len(nodeMap) : nodeMap[k].inFrustum}}

\* C28: the visible set holds registered ids only; when dispose has
\* returned, whatever was called before, nodeMap and the visible set are
\* empty.
C28_DisposeEmptiesOptimizer ==
  /\ visibleNodes \subseteq Registered
  /\ (calls # <<>> /\ calls[Len(calls)].method = "dispose")
       => nodeMap = <<>> /\ visibleNodes = {}

\* dispose has returned after two nodes were added and updateVisibleNodes
\* was called
C28_Witness ==
  /\ Len(calls) = MaxCalls
  /\ calls[1].method = "addNode" /\ calls[2].method = "addNode"
  /\ calls[1].id # calls[2].id
  /\ calls[3].method = "updateVisibleNodes"
  /\ calls[4].method = "dispose"
  /\ nodeMap = <<>> /\ visibleNodes = {}

\* C29, as claimed: a node is visible when addNode has returned for it, and
\* when updateVisibleNodes has returned the visible set is the set of the
\* registered ids whose bounding sphere intersects the frustum.
C29_VisibleIsFrustumSet ==
  calls # <<>> =>
    LET last == calls[Len(calls)]
    IN  /\ last.method = "addNode" => last.id \in visibleNodes
        /\ last.method = "updateVisibleNodes" => visibleNodes = InFrustum

----------------------------------------------------------------------------
(* Properties of failed rebuilds, checked under SpecRebuild *)

\* the change events whose rebuild has run to its end with a snapshot
Succeeded ==
  {k \in 1..Len(hmrLog) :
     Rebuilt(k) /\ (microtasks = <<>> \/ Head(microtasks).event # k)}

\* the last successfully built snapshot, or the initial empty one
LastBuilt == IF Succeeded = {} THEN EmptyGraph ELSE SnapshotOf(Max(Succeeded))

\* C30: a rebuild whose promise is rejected leaves graphCache and what
\* the API has served as they are; graphCache is always the snapshot of
\* the last rebuild that succeeded, or the initial empty snapshot when
\* none has.
C30_FailedRebuildKeepsSnapshot ==
  /\ [](graphCache = LastBuilt)
  /\ [][(microtasks # <<>> /\ Head(microtasks).promise.rejected
          /\ microtasks' = Tail(microtasks))
         => (graphCache' = graphCache /\ served' = served)]_vars

\* the second rebuild has failed after the first one built a snapshot with
\* nodes; the API has answered since, with that snapshot
C30_Witness ==
  /\ microtasks = <<>>
  /\ Len(hmrLog) = 2
  /\ Rebuilt(1) /\ SnapshotOf(1).nodes # <<>>
  /\ hmrLog[2].result[1].rejected
  /\ buildResult = "rejected"
  /\ graphCache = SnapshotOf(1)
  /\ served = <<SnapshotOf(1)>>

====
